---- MODULE Spec2Model ----
(***************************************************************************)
(* State-machine model of the battery applet                               *)
(* (applets/cosmic-applet-power-battery/src/main.rs).                      *)
(*                                                                         *)
(* Three kinds of steps interleave:                                        *)
(*   - the task spawned by AppModel::init, which runs display_device()     *)
(*     and reports its result;                                             *)
(*   - the component's message loop, which takes one AppMsg at a time      *)
(*     from the input channel and runs AppModel::update on it;             *)
(*   - the task spawned by the SetDevice handler, which subscribes to the  *)
(*     three property streams, sends the first UpdateProperties and then   *)
(*     forwards one UpdateProperties per item of the merged stream.        *)
(* The power service (changing properties) and the user (moving the two    *)
(* brightness scales) are the environment.                                 *)
(*                                                                         *)
(* f64 values are written as the integers they are equal to (42 is 42.0).  *)
(* A u64 is written as four base-2^16 limbs, most significant first, so    *)
(* that the i64 -> u64 cast keeps its 64-bit width.                        *)
(***************************************************************************)
EXTENDS Integers, Sequences, FiniteSets, TLC

\* ---------------------------------------------------------------- bounds
\* Number of things the environment does in one run: property changes made
\* by the power service plus brightness scales moved by the user.
MaxEvents == 3

\* ------------------------------------------------------ Option and Result
None == <<>>
Some(x) == <<x>>
Ok(x) == [ok |-> TRUE, val |-> x]
\* The error value itself is never inspected by main.rs.
Err == [ok |-> FALSE, val |-> <<>>]

\* The pattern `if let Ok(Some(x)) = read`.
IsOkSome(read) == read.ok /\ read.val # None

\* ------------------------------------------------------------ value sets
Props == {"icon_name", "percentage", "time_to_empty"}

\* Values the power service may report for each property.
IconValues == {"battery-level-50-symbolic"}
PercentValues == {42, 50, 150}
SecsValues == {3600, -1}

ValuesOf(p) ==
    CASE p = "icon_name" -> IconValues
      [] p = "percentage" -> PercentValues
      [] p = "time_to_empty" -> SecsValues

\* What a cached_<property>() call can return: Ok(Some(v)), Ok(None), Err(_).
ReadOutcomes(p) == {Ok(Some(v)) : v \in ValuesOf(p)} \cup {Ok(None), Err}

\* Values the brightness scales hand to the component (one value other than
\* the default 0.0 is taken).
BrightnessValues == {75}

\* --------------------------------------------------------- u64 / Duration
Limb == 65536

\* `secs as u64` for an i64 secs with |secs| < 2^31: two's-complement
\* reinterpretation, i.e. secs mod 2^64, as four 16-bit limbs.
AsU64(secs) ==
    LET ext == IF secs < 0 THEN Limb - 1 ELSE 0
    IN  <<ext, ext, (secs \div Limb) % Limb, secs % Limb>>

\* Duration::from_secs(n): n whole seconds, no nanoseconds.
DurationFromSecs(n) == [secs |-> n, nanos |-> 0]

\* Duration::default()
DurationZero == DurationFromSecs(<<0, 0, 0, 0>>)

\* ----------------------------------------------------------------- state
VARIABLES
    icon_name,            \* AppModel.icon_name
    battery_percent,      \* AppModel.battery_percent
    time_remaining,       \* AppModel.time_remaining
    display_brightness,   \* AppModel.display_brightness
    keyboard_brightness,  \* AppModel.keyboard_brightness
    device,               \* AppModel.device : Option<DeviceProxy>
    queue,                \* the component's input channel (sender.input), FIFO
    initPc,               \* position of the task spawned by init
    devResult,            \* outcome of display_device(): "pending", "Ok" or the failing step
    stderr,               \* lines written by eprintln!
    busCalls,             \* remote operations performed so far (connections, method calls)
    connections,          \* number of zbus::Connection::system() calls
    subPc,                \* position of the task spawned by the SetDevice handler
    spawned,              \* number of tasks the SetDevice handler has spawned
    cache,                \* the proxy's property cache: what cached_<p>() returns now
    listening,            \* listening[p]: the stream receive_<p>_changed() exists
    notified,             \* notified[p]: stream p has an unconsumed change notification
    changes,              \* number of property changes so far
    intents,              \* number of brightness intents so far
    dispatched,           \* history: number of messages the message loop has taken
    items,                \* history: number of stream items the notifications have produced
    handled,              \* history: the UpdateProperties messages handled, in order
    stale                 \* history: a change after merge setup not yet followed by a recomputation

model == <<icon_name, battery_percent, time_remaining,
           display_brightness, keyboard_brightness, device>>
snapshot == <<icon_name, battery_percent, time_remaining>>
initTask == <<initPc, devResult, stderr, connections>>
streams == <<listening, notified>>
history == <<dispatched, items, handled, stale>>
vars == <<icon_name, battery_percent, time_remaining, display_brightness,
          keyboard_brightness, device, queue, initPc, devResult, stderr,
          busCalls, connections, subPc, spawned, cache, listening, notified,
          changes, intents, dispatched, items,
          handled, stale>>

\* ------------------------------------------------------------- messages
\* enum AppMsg.  UpdateProperties has no payload in the code; `arg` records
\* whether the send ahead of the loop ("initial") or the send in the loop
\* body ("change") produced it, and how many UpdateProperties were sent
\* before it, for the histories only.
SetDisplayBrightness(v) == [type |-> "SetDisplayBrightness", arg |-> <<v>>]
SetKeyboardBrightness(v) == [type |-> "SetKeyboardBrightness", arg |-> <<v>>]
SetDevice == [type |-> "SetDevice", arg |-> <<>>]
UpdateProperties(origin, seq) == [type |-> "UpdateProperties", arg |-> <<origin, seq>>]

\* sender.input(msg): append to the unbounded input channel.
Input(q, msg) == Append(q, msg)

HeadIs(t) == queue # <<>> /\ Head(queue).type = t

\* The UpdateProperties messages waiting in the channel, in order.
Pending == SelectSeq(queue, LAMBDA m : m.type = "UpdateProperties")

\* The UpdateProperties messages sent so far, in the order they were sent
\* if the channel is first-in first-out.
Sent == handled \o [i \in 1..Len(Pending) |-> Pending[i].arg]

\* ------------------------------------------------------------------ Init
\* AppModel::init: icon_name set, everything else Default::default(); the
\* display_device() task is spawned and has not run yet.
Init ==
    /\ icon_name = "battery-symbolic"
    /\ battery_percent = 0
    /\ time_remaining = DurationZero
    /\ display_brightness = 0
    /\ keyboard_brightness = 0
    /\ device = None
    /\ queue = <<>>
    /\ initPc = "connect"
    /\ devResult = "pending"
    /\ stderr = <<>>
    /\ busCalls = 0
    /\ connections = 0
    /\ subPc = "none"
    /\ spawned = 0
    /\ cache = [p \in Props |-> Ok(None)]
    /\ listening = [p \in Props |-> FALSE]
    /\ notified = [p \in Props |-> FALSE]
    /\ changes = 0
    /\ intents = 0
    /\ dispatched = 0
    /\ items = 0
    /\ handled = <<>>
    /\ stale = FALSE

\* --------------------------------------------- the task spawned by init
\* Variant of Question: `.unwrap()` in place of `?`, which panics on Err.
Question_Unwrap(ok, next) == IF ok THEN next ELSE "panicked"

\* The `?` operator: continue on Ok, return the error to the caller on Err.
Question(ok, next) == IF ok THEN next ELSE "err"

\* One fallible await of display_device(): on Err the function returns that
\* error, which the match in init will report.
Await(at, ok, next, failure) ==
    /\ initPc = at
    /\ initPc' = Question(ok, next)
    /\ devResult' = IF ok THEN devResult ELSE failure

\* What the cache holds once the proxy is built with CacheProperties::Yes:
\* what the service reported for each property at that moment.  Two cases
\* are taken: the service reported nothing, or a value for every property
\* (later changes produce the mixed contents).
InitialCaches ==
    {[p \in Props |-> Ok(None)],
     [icon_name |-> Ok(Some("battery-level-50-symbolic")),
      percentage |-> Ok(Some(50)),
      time_to_empty |-> Ok(Some(3600))]}

\* zbus::Connection::system().await?
Connect ==
    /\ \E ok \in BOOLEAN : Await("connect", ok, "upower", "ConnectError")
    /\ connections' = connections + 1
    /\ busCalls' = busCalls + 1
    /\ UNCHANGED <<model, queue, stderr, subPc, spawned, cache, streams,
                   changes, intents, history>>

\* UPowerProxy::new(&connection).await?
NewUPowerProxy ==
    /\ \E ok \in BOOLEAN : Await("upower", ok, "get_display_device", "ProxyError")
    /\ UNCHANGED <<model, queue, stderr, busCalls, connections, subPc, spawned,
                   cache, streams, changes, intents, history>>

\* upower.get_display_device().await?
GetDisplayDevice ==
    /\ \E ok \in BOOLEAN : Await("get_display_device", ok, "path", "MethodError")
    /\ busCalls' = busCalls + 1
    /\ UNCHANGED <<model, queue, stderr, connections, subPc, spawned, cache,
                   streams, changes, intents, history>>

\* DeviceProxy::builder(&connection).path(device_path)?
Path ==
    /\ \E ok \in BOOLEAN : Await("path", ok, "build", "PathError")
    /\ UNCHANGED <<model, queue, stderr, busCalls, connections, subPc, spawned,
                   cache, streams, changes, intents, history>>

\* .cache_properties(Yes).build().await : the last expression of
\* display_device(), so its Result is the function's result.
Build ==
    /\ initPc = "build"
    /\ busCalls' = busCalls + 1
    /\ \/ /\ initPc' = "ok"
          /\ devResult' = "Ok"
          /\ cache' \in InitialCaches
       \/ /\ initPc' = "err"
          /\ devResult' = "BuildError"
          /\ cache' = cache
    /\ UNCHANGED <<model, queue, stderr, connections, subPc, spawned, streams,
                   changes, intents, history>>

\* Variant of MatchOk: the proxy is announced twice.
MatchOk_Twice ==
    /\ initPc = "ok"
    /\ queue' = Input(Input(queue, SetDevice), SetDevice)
    /\ initPc' = "done"
    /\ UNCHANGED <<model, devResult, stderr, busCalls, connections, subPc,
                   spawned, cache, streams, changes, intents, history>>

\* Ok(device) => sender.input(AppMsg::SetDevice(device))
MatchOk ==
    /\ initPc = "ok"
    /\ queue' = Input(queue, SetDevice)
    /\ initPc' = "done"
    /\ UNCHANGED <<model, devResult, stderr, busCalls, connections, subPc,
                   spawned, cache, streams, changes, intents, history>>

\* Variant of MatchErr: report the error and run display_device() again.
MatchErr_Retry ==
    /\ initPc = "err"
    /\ stderr' = Append(stderr, devResult)
    /\ initPc' = "connect"
    /\ UNCHANGED <<model, queue, devResult, busCalls, connections, subPc,
                   spawned, cache, streams, changes, intents, history>>

\* Err(err) => eprintln!("Failed to open UPower display device: {}", err)
MatchErr ==
    /\ initPc = "err"
    /\ stderr' = Append(stderr, devResult)
    /\ initPc' = "done"
    /\ UNCHANGED <<model, queue, devResult, busCalls, connections, subPc,
                   spawned, cache, streams, changes, intents, history>>

\* ------------------------------------------------------ AppModel::update
\* Variant of HandleSetDisplayBrightness: the value is stored in both
\* brightness fields.
HandleSetDisplayBrightness_Both ==
    /\ HeadIs("SetDisplayBrightness")
    /\ display_brightness' = Head(queue).arg[1]
    /\ keyboard_brightness' = Head(queue).arg[1]
    /\ queue' = Tail(queue)
    /\ dispatched' = dispatched + 1
    /\ UNCHANGED <<snapshot, device, initTask, busCalls, subPc, spawned, cache,
                   streams, changes, intents, items, handled, stale>>

\* AppMsg::SetDisplayBrightness(value)
HandleSetDisplayBrightness ==
    /\ HeadIs("SetDisplayBrightness")
    /\ display_brightness' = Head(queue).arg[1]
    /\ queue' = Tail(queue)
    /\ dispatched' = dispatched + 1
    /\ UNCHANGED <<snapshot, keyboard_brightness, device, initTask, busCalls,
                   subPc, spawned, cache, streams, changes, intents, items,
                   handled, stale>>

\* AppMsg::SetKeyboardBrightness(value)
HandleSetKeyboardBrightness ==
    /\ HeadIs("SetKeyboardBrightness")
    /\ keyboard_brightness' = Head(queue).arg[1]
    /\ queue' = Tail(queue)
    /\ dispatched' = dispatched + 1
    /\ UNCHANGED <<snapshot, display_brightness, device, initTask, busCalls,
                   subPc, spawned, cache, streams, changes, intents, items,
                   handled, stale>>

\* Variant of HandleSetDevice: the model is rebuilt from Default::default()
\* around the new device, which empties icon_name.
HandleSetDevice_Rebuild ==
    /\ HeadIs("SetDevice")
    /\ device' = Some("DeviceProxy")
    /\ icon_name' = ""
    /\ subPc' = "receive_icon_name_changed"
    /\ spawned' = spawned + 1
    /\ queue' = Tail(queue)
    /\ dispatched' = dispatched + 1
    /\ UNCHANGED <<battery_percent, time_remaining, display_brightness,
                   keyboard_brightness, initTask, busCalls, cache, streams,
                   changes, intents, items, handled, stale>>

\* Variant of HandleSetDevice: the task is spawned but the proxy is not
\* stored in the model.
HandleSetDevice_NoStore ==
    /\ HeadIs("SetDevice")
    /\ subPc' = "receive_icon_name_changed"
    /\ spawned' = spawned + 1
    /\ queue' = Tail(queue)
    /\ dispatched' = dispatched + 1
    /\ UNCHANGED <<snapshot, display_brightness, keyboard_brightness, device,
                   initTask, busCalls, cache, streams, changes, intents, items,
                   handled, stale>>

\* AppMsg::SetDevice(device): store the proxy and spawn the forwarding task.
HandleSetDevice ==
    /\ HeadIs("SetDevice")
    /\ device' = Some("DeviceProxy")
    /\ subPc' = "receive_icon_name_changed"
    /\ spawned' = spawned + 1
    /\ queue' = Tail(queue)
    /\ dispatched' = dispatched + 1
    /\ UNCHANGED <<snapshot, display_brightness, keyboard_brightness, initTask,
                   busCalls, cache, streams, changes, intents, items, handled,
                   stale>>

\* device.cached_<p>() on the stored proxy.
cached_percentage == cache["percentage"]
cached_icon_name == cache["icon_name"]
cached_time_to_empty == cache["time_to_empty"]

\* `if let Ok(Some(x)) = read { field = x }`: the value the field has afterwards.
IfLetOkSome(read, field) == IF IsOkSome(read) THEN read.val[1] ELSE field

\* Variant of ReadPercentage: `.ok().flatten().unwrap_or_default()`, which
\* stores 0.0 when the read is Ok(None) or Err.
ReadPercentage_OrDefault ==
    IF IsOkSome(cached_percentage) THEN cached_percentage.val[1] ELSE 0

\* Variant of ReadPercentage: the value is clamped to at most 100 before it
\* is stored.
ReadPercentage_Clamped ==
    IF IsOkSome(cached_percentage)
    THEN (IF cached_percentage.val[1] > 100 THEN 100
          ELSE cached_percentage.val[1])
    ELSE battery_percent

\* The three assignments inside `if let Some(device) = self.device.as_ref()`.
ReadPercentage == IfLetOkSome(cached_percentage, battery_percent)
ReadIconName == IfLetOkSome(cached_icon_name, icon_name)
ReadTimeToEmpty ==
    IF IsOkSome(cached_time_to_empty)
    THEN DurationFromSecs(AsU64(cached_time_to_empty.val[1]))
    ELSE time_remaining

\* Variant of HandleUpdateProperties: the fields are written only when all
\* three reads return a value.
HandleUpdateProperties_AllOrNothing ==
    /\ HeadIs("UpdateProperties")
    /\ IF /\ device # None
          /\ IsOkSome(cached_percentage)
          /\ IsOkSome(cached_icon_name)
          /\ IsOkSome(cached_time_to_empty)
       THEN /\ battery_percent' = ReadPercentage
            /\ icon_name' = ReadIconName
            /\ time_remaining' = ReadTimeToEmpty
       ELSE UNCHANGED snapshot
    /\ queue' = Tail(queue)
    /\ dispatched' = dispatched + 1
    /\ handled' = Append(handled, Head(queue).arg)
    /\ stale' = FALSE
    /\ UNCHANGED <<display_brightness, keyboard_brightness, device, initTask,
                   busCalls, subPc, spawned, cache, streams, changes, intents,
                   items>>

\* Variant of HandleUpdateProperties: the three `if let` form an else-if
\* chain, so only the first property that reads a value is stored.
HandleUpdateProperties_ElseIf ==
    /\ HeadIs("UpdateProperties")
    /\ IF device = None
       THEN UNCHANGED snapshot
       ELSE IF IsOkSome(cached_percentage)
       THEN battery_percent' = ReadPercentage /\ UNCHANGED <<icon_name, time_remaining>>
       ELSE IF IsOkSome(cached_icon_name)
       THEN icon_name' = ReadIconName /\ UNCHANGED <<battery_percent, time_remaining>>
       ELSE time_remaining' = ReadTimeToEmpty /\ UNCHANGED <<battery_percent, icon_name>>
    /\ queue' = Tail(queue)
    /\ dispatched' = dispatched + 1
    /\ handled' = Append(handled, Head(queue).arg)
    /\ stale' = FALSE
    /\ UNCHANGED <<display_brightness, keyboard_brightness, device, initTask,
                   busCalls, subPc, spawned, cache, streams, changes, intents,
                   items>>

\* Variant of HandleUpdateProperties: one call serves every UpdateProperties
\* waiting in the channel and removes them all.
HandleUpdateProperties_Batch ==
    /\ HeadIs("UpdateProperties")
    /\ IF device # None
       THEN /\ battery_percent' = ReadPercentage
            /\ icon_name' = ReadIconName
            /\ time_remaining' = ReadTimeToEmpty
       ELSE UNCHANGED snapshot
    /\ queue' = SelectSeq(queue, LAMBDA m : m.type # "UpdateProperties")
    /\ dispatched' = dispatched + Len(Pending)
    /\ handled' = Sent
    /\ stale' = FALSE
    /\ UNCHANGED <<display_brightness, keyboard_brightness, device, initTask,
                   busCalls, subPc, spawned, cache, streams, changes, intents,
                   items>>

\* AppMsg::UpdateProperties.  The three reads are of three different cache
\* entries, each read once, so a change landing between two of them has the
\* same effect as one landing just before or just after the handler.
HandleUpdateProperties ==
    /\ HeadIs("UpdateProperties")
    /\ IF device # None
       THEN /\ battery_percent' = ReadPercentage
            /\ icon_name' = ReadIconName
            /\ time_remaining' = ReadTimeToEmpty
       ELSE UNCHANGED snapshot
    /\ queue' = Tail(queue)
    /\ dispatched' = dispatched + 1
    /\ handled' = Append(handled, Head(queue).arg)
    /\ stale' = FALSE
    /\ UNCHANGED <<display_brightness, keyboard_brightness, device, initTask,
                   busCalls, subPc, spawned, cache, streams, changes, intents,
                   items>>

\* ------------------------------- the task spawned by the SetDevice handler
\* device.receive_<p>_changed().await: from now on a change of p notifies
\* the stream.  One argument of stream_select! is evaluated per step.
Subscribe(at, p, next) ==
    /\ subPc = at
    /\ listening' = [listening EXCEPT ![p] = TRUE]
    /\ subPc' = next
    /\ UNCHANGED <<model, queue, initTask, busCalls, spawned, cache, notified,
                   changes, intents, history>>

SubscribeIconName ==
    Subscribe("receive_icon_name_changed", "icon_name", "receive_percentage_changed")
SubscribePercentage ==
    Subscribe("receive_percentage_changed", "percentage", "receive_time_to_empty_changed")
\* Variant of SubscribeTimeToEmpty: the third stream is left out of the merge.
SubscribeTimeToEmpty_Omitted ==
    /\ subPc = "receive_time_to_empty_changed"
    /\ subPc' = "send_initial"
    /\ UNCHANGED <<model, queue, initTask, busCalls, spawned, cache, streams,
                   changes, intents, history>>

SubscribeTimeToEmpty ==
    Subscribe("receive_time_to_empty_changed", "time_to_empty", "send_initial")

\* Variant of SendInitial: the task enters its loop without the first send.
SendInitial_Skipped ==
    /\ subPc = "send_initial"
    /\ subPc' = "loop"
    /\ UNCHANGED <<model, queue, initTask, busCalls, spawned, cache, streams,
                   changes, intents, history>>

\* Variant of SendInitial: the first UpdateProperties is sent twice.
SendInitial_Twice ==
    /\ subPc = "send_initial"
    /\ queue' = Input(Input(queue, UpdateProperties("initial", Len(Sent))),
                      UpdateProperties("initial", Len(Sent) + 1))
    /\ subPc' = "loop"
    /\ UNCHANGED <<model, initTask, busCalls, spawned, cache, streams, changes,
                   intents, history>>

\* sender.input(AppMsg::UpdateProperties) ahead of the loop.
SendInitial ==
    /\ subPc = "send_initial"
    /\ queue' = Input(queue, UpdateProperties("initial", Len(Sent)))
    /\ subPc' = "loop"
    /\ UNCHANGED <<model, initTask, busCalls, spawned, cache, streams, changes,
                   intents, history>>

\* The streams of the merged stream that have an item ready.  A property
\* stream (zbus PropertyStream) is an event listener on the cache entry of
\* its property and keeps no queue of changes: it is either notified or not,
\* and a change of a notified stream leaves it notified.  stream_select!
\* takes any one of the ready streams when several are ready.
Ready == {p \in Props : notified[p]}

\* Variant of StreamNext: one turn takes the items of all ready streams
\* and sends a single UpdateProperties for them.
StreamNext_Drain ==
    /\ subPc = "loop"
    /\ Ready # {}
    /\ notified' = [p \in Props |-> FALSE]
    /\ queue' = Input(queue, UpdateProperties("change", Len(Sent)))
    /\ UNCHANGED <<model, initTask, busCalls, subPc, spawned, cache, listening,
                   changes, intents, history>>

\* Variant of StreamNext: `if let` in place of `while let`, the task ends
\* after forwarding one item.
StreamNext_Once ==
    /\ subPc = "loop"
    /\ \E p \in Ready :
          notified' = [notified EXCEPT ![p] = FALSE]
    /\ queue' = Input(queue, UpdateProperties("change", Len(Sent)))
    /\ subPc' = "finished"
    /\ UNCHANGED <<model, initTask, busCalls, spawned, cache, listening,
                   changes, intents, history>>

\* One turn of `while let Some(()) = stream.next().await`: the merged stream
\* yields the item of one ready stream (any of them when several are ready),
\* that stream starts listening afresh, and the body sends UpdateProperties.
StreamNext ==
    /\ subPc = "loop"
    /\ \E p \in Ready :
          /\ notified' = [notified EXCEPT ![p] = FALSE]
          /\ queue' = Input(queue, UpdateProperties("change", Len(Sent)))
    /\ UNCHANGED <<model, initTask, busCalls, subPc, spawned, cache, listening,
                   changes, intents, history>>

\* ----------------------------------------------------------- environment
\* The power service changes property p (a PropertiesChanged signal): the
\* cache takes the new content and the stream of p, if it exists, is notified.
\* The content may be a value, nothing (the property was invalidated) or a
\* value cached_<p>() cannot convert.
Change(p) ==
    /\ devResult = "Ok"
    /\ changes + intents < MaxEvents
    /\ changes' = changes + 1
    /\ \E o \in ReadOutcomes(p) : cache' = [cache EXCEPT ![p] = o]
    /\ notified' = [notified EXCEPT ![p] = listening[p]]
    /\ items' = IF notified'[p] /\ ~notified[p] THEN items + 1 ELSE items
    /\ stale' = (stale \/ \A q \in Props : listening[q])
    /\ UNCHANGED <<model, queue, initTask, busCalls, subPc, spawned, listening,
                   intents, dispatched, handled>>

PropertyChanged == \E p \in Props : Change(p)

\* connect_change_value of the display scale: sender.input(SetDisplayBrightness(value)).
UserSetsDisplayBrightness ==
    /\ changes + intents < MaxEvents
    /\ intents' = intents + 1
    /\ \E v \in BrightnessValues : queue' = Input(queue, SetDisplayBrightness(v))
    /\ UNCHANGED <<model, initTask, busCalls, subPc, spawned, cache, streams,
                   changes, history>>

\* connect_change_value of the keyboard scale: sender.input(SetKeyboardBrightness(value)).
UserSetsKeyboardBrightness ==
    /\ changes + intents < MaxEvents
    /\ intents' = intents + 1
    /\ \E v \in BrightnessValues : queue' = Input(queue, SetKeyboardBrightness(v))
    /\ UNCHANGED <<model, initTask, busCalls, subPc, spawned, cache, streams,
                   changes, history>>

\* --------------------------------------------------------- specification
InitTaskStep ==
    \/ Connect
    \/ NewUPowerProxy
    \/ GetDisplayDevice
    \/ Path
    \/ Build
    \/ MatchOk
    \/ MatchErr

Update ==
    \/ HandleSetDisplayBrightness
    \/ HandleSetKeyboardBrightness
    \/ HandleSetDevice
    \/ HandleUpdateProperties

SubTaskStep ==
    \/ SubscribeIconName
    \/ SubscribePercentage
    \/ SubscribeTimeToEmpty
    \/ SendInitial
    \/ StreamNext

Environment ==
    \/ PropertyChanged
    \/ UserSetsDisplayBrightness
    \/ UserSetsKeyboardBrightness

Next == InitTaskStep \/ Update \/ SubTaskStep \/ Environment

Spec == Init /\ [][Next]_vars

\* The main loop runs every task that can make progress and handles every
\* message in the channel; the environment is under no obligation.
FairSpec ==
    /\ Spec
    /\ WF_vars(InitTaskStep)
    /\ WF_vars(Update)
    /\ WF_vars(SubTaskStep)

\* ================================================================ claims
DefaultSnapshot == <<"battery-symbolic", 0, DurationZero>>

\* Nothing is left to do for the property streams: the forwarding loop is
\* waiting, no stream holds a notification and no UpdateProperties is waiting.
Quiescent == subPc = "loop" /\ Ready = {} /\ Pending = <<>>

SentByLoop == SelectSeq(Sent, LAMBDA a : a[1] = "change")
HandledFromLoop == SelectSeq(handled, LAMBDA a : a[1] = "change")
Subscribed == \A p \in Props : listening[p]

C2_InitialFirst ==
    /\ \A i \in 1..Len(Sent) : (Sent[i][1] = "initial") <=> (i = 1)
    /\ subPc = "loop" => Sent # <<>>

\* C2: once SetDevice is handled, the forwarding task sends exactly one
\* UpdateProperties of its own, ahead of every UpdateProperties that a change
\* notification causes, and that message is handled, so one recomputation
\* happens whether or not any change notification arrives.
C2_InitialUpdate ==
    /\ []C2_InitialFirst
    /\ (device # None) ~> (handled # <<>> /\ handled[1][1] = "initial")

\* The initial recomputation has run and the service has changed nothing.
C2_Witness ==
    /\ handled = <<(<<"initial", 0>>)>>
    /\ changes = 0
    /\ Quiescent

C4_ConnectFailure ==
    devResult = "ConnectError" =>
        /\ device = None
        /\ snapshot = DefaultSnapshot
        /\ \A i \in 1..Len(queue) : queue[i].type # "SetDevice"
        /\ spawned = 0
        /\ initPc \in {"err", "done"}
        /\ stderr = IF initPc = "done" THEN <<"ConnectError">> ELSE <<>>

\* The connection failed, the failure was reported, and the message loop
\* went on to handle a brightness message.
C4_Witness ==
    /\ devResult = "ConnectError"
    /\ initPc = "done"
    /\ display_brightness = 75
    /\ queue = <<>>

ResolveErrors == {"MethodError", "PathError", "BuildError"}

\* C5: when get_display_device, the path binding or the proxy build fails,
\* the error is written to stderr, the snapshot keeps its defaults, and
\* nothing is tried again: one connection was made and no remote operation
\* follows the failing one.
C5_ResolveFailure ==
    devResult \in ResolveErrors =>
        /\ device = None
        /\ snapshot = DefaultSnapshot
        /\ \A i \in 1..Len(queue) : queue[i].type # "SetDevice"
        /\ initPc \in {"err", "done"}
        /\ stderr = IF initPc = "done" THEN <<devResult>> ELSE <<>>
        /\ connections = 1
        /\ busCalls = IF devResult = "BuildError" THEN 3 ELSE 2

\* The proxy build failed and the failure was reported.
C5_Witness ==
    /\ devResult = "BuildError"
    /\ initPc = "done"
    /\ stderr = <<"BuildError">>

\* C6: the task has subscribed to all three properties before it sends the
\* first UpdateProperties and before it takes any item of the merged stream,
\* and a change made after the third subscription is never lost: until a
\* recomputation has run after it, the first UpdateProperties is still to be
\* sent, or a stream holds its notification, or an UpdateProperties waits.
C6_SubscribedBeforeConsuming ==
    /\ (subPc \in {"send_initial", "loop"} \/ Sent # <<>>) =>
           \A p \in Props : listening[p]
    /\ stale => \/ subPc = "send_initial"
                \/ Ready # {}
                \/ Pending # <<>>

\* A change arrived after the third subscription and before the first
\* UpdateProperties was sent; the recomputations that followed have run.
C6_Witness ==
    /\ Quiescent
    /\ changes = 1
    /\ handled = <<(<<"initial", 0>>), (<<"change", 1>>)>>
    /\ cache["time_to_empty"] = Ok(Some(-1))
    /\ ~stale

\* C7: after a successful resolution and one change, of percentage to 42.0,
\* with icon_name and time_to_empty absent from the cache, the snapshot has
\* battery_percent = 42.0 and icon_name and time_remaining as before.
C7_SinglePercentageChange ==
    (/\ Quiescent
     /\ changes = 1
     /\ cache["percentage"] = Ok(Some(42))
     /\ cache["icon_name"] = Ok(None)
     /\ cache["time_to_empty"] = Ok(None)) =>
        /\ battery_percent = 42
        /\ icon_name = "battery-symbolic"
        /\ time_remaining = DurationZero

\* The change to 42.0 was notified to the stream and the recomputation it
\* caused has run.
C7_Witness ==
    /\ Quiescent
    /\ changes = 1
    /\ Len(handled) = 2
    /\ cache["percentage"] = Ok(Some(42))
    /\ cache["icon_name"] = Ok(None)
    /\ battery_percent = 42
    /\ icon_name = "battery-symbolic"

\* C8: once icon_name and percentage have changed to
\* "battery-level-50-symbolic" and 50.0 and every resulting UpdateProperties
\* has been handled, the snapshot holds both new values, whatever the order
\* of the two notifications and of the steps in between.
C8_BothChangesApplied ==
    (/\ Quiescent
     /\ cache["icon_name"] = Ok(Some("battery-level-50-symbolic"))
     /\ cache["percentage"] = Ok(Some(50))) =>
        /\ icon_name = "battery-level-50-symbolic"
        /\ battery_percent = 50

\* Both changes were notified while nothing was cached before, each caused
\* its own recomputation, and both values are in the snapshot.
C8_Witness ==
    /\ Quiescent
    /\ changes = 2
    /\ items = 2
    /\ cache["time_to_empty"] = Ok(None)
    /\ Len(handled) = 3
    /\ icon_name = "battery-level-50-symbolic"
    /\ battery_percent = 50

\* C9: handling SetDisplayBrightness(v) sets display_brightness to v,
\* handling SetKeyboardBrightness(v) sets keyboard_brightness to v, and each
\* leaves every other field of the model alone, sends no message and makes
\* no remote call.
C9_BrightnessOnly ==
    [][(dispatched' # dispatched /\ Head(queue).type = "SetDisplayBrightness" =>
            /\ display_brightness' = Head(queue).arg[1]
            /\ UNCHANGED <<keyboard_brightness, snapshot, device>>
            /\ queue' = Tail(queue)
            /\ busCalls' = busCalls)
       /\ (dispatched' # dispatched /\ Head(queue).type = "SetKeyboardBrightness" =>
            /\ keyboard_brightness' = Head(queue).arg[1]
            /\ UNCHANGED <<display_brightness, snapshot, device>>
            /\ queue' = Tail(queue)
            /\ busCalls' = busCalls)]_vars

\* A keyboard brightness message was handled while the snapshot held values
\* read from the device.
C9_Witness ==
    /\ keyboard_brightness = 75
    /\ display_brightness = 0
    /\ battery_percent = 50
    /\ device # None
    /\ queue = <<>>

\* C10: icon_name, battery_percent and time_remaining change only in the
\* handling of an UpdateProperties message.
C10_SnapshotWrittenByUpdateOnly ==
    [][snapshot' # snapshot =>
          /\ queue # <<>>
          /\ Head(queue).type = "UpdateProperties"
          /\ dispatched' = dispatched + 1]_vars

\* The snapshot was written, and SetDevice, a brightness message and the
\* steps of both tasks have run as well.
C10_Witness ==
    /\ snapshot # DefaultSnapshot
    /\ device # None
    /\ display_brightness = 75
    /\ subPc = "loop"
    /\ initPc = "done"

\* What a field may hold after a recomputation, given only the field before
\* it and the read of its property.
AfterRead(read, field, conv(_)) ==
    {field} \cup (IF IsOkSome(read) THEN {conv(read.val[1])} ELSE {})

Same(x) == x
SecsToDuration(secs) == DurationFromSecs(AsU64(secs))

\* C11: recomputations do not overlap and are applied in delivery order:
\* each UpdateProperties is handled in one step of the message loop, which
\* takes exactly the message at the head of the channel, the k-th handled is
\* the k-th sent, no task step and no other message falls inside it, and the
\* snapshot after it is made of the snapshot before it and the cache
\* contents at that step only.
C11_OneAtATimeInOrder ==
    [][handled' # handled =>
          /\ HeadIs("UpdateProperties")
          /\ handled' = Append(handled, Head(queue).arg)
          /\ Head(queue).arg[2] = Len(handled)
          /\ queue' = Tail(queue)
          /\ dispatched' = dispatched + 1
          /\ UNCHANGED <<cache, streams, subPc, initPc, device>>
          /\ battery_percent' \in AfterRead(cache["percentage"], battery_percent, Same)
          /\ icon_name' \in AfterRead(cache["icon_name"], icon_name, Same)
          /\ time_remaining' \in
                AfterRead(cache["time_to_empty"], time_remaining, SecsToDuration)]_vars

\* Two recomputations have run one after the other while a third
\* UpdateProperties was already waiting.
C11_Witness ==
    /\ Len(handled) = 2
    /\ Len(Pending) = 1
    /\ battery_percent = 42

\* C12 (as claimed): at most one UpdateProperties is waiting in the channel
\* at any time.
C12_AtMostOnePending ==
    Len(Pending) <= 1

\* C12 (amended): the task sends without waiting for the handler, so several
\* UpdateProperties can wait at once; the ones waiting are exactly those
\* sent and not yet handled: the first one (once the task is in its loop)
\* plus one per item taken from the merged stream, less those handled.
C12_PendingAreSentNotHandled ==
    Len(Pending) =
        (IF subPc = "loop" THEN 1 ELSE 0) + (items - Cardinality(Ready))
            - Len(handled)

\* The first UpdateProperties and one forwarded from the stream wait in the
\* channel together, neither handled yet.
C12_Witness ==
    /\ Len(Pending) = 2
    /\ handled = <<>>
    /\ items = 1

\* C13: the forwarding loop has no exit of its own: once in the loop the
\* task stays in it, every item it takes from the merged stream produces one
\* UpdateProperties, and the task always catches up with the streams: again
\* and again no stream holds a notification, so each one held, however late
\* it arrived, has been taken.
C13_LoopNeverExits ==
    /\ [][subPc = "loop" => subPc' = "loop"]_vars
    /\ [][(\E p \in Props : notified[p] /\ ~notified'[p]) =>
              /\ Len(Sent') = Len(Sent) + 1
              /\ Sent'[Len(Sent')][1] = "change"]_vars
    /\ []<>(Ready = {})

\* The loop has forwarded three items, one after another, and waits for more.
C13_Witness ==
    /\ subPc = "loop"
    /\ items = MaxEvents
    /\ Ready = {}
    /\ Len(Sent) = items + 1

\* SetDevice messages sent so far: those waiting plus those handled (each
\* handling spawns one task).
SetDeviceSent ==
    Len(SelectSeq(queue, LAMBDA m : m.type = "SetDevice")) + spawned

\* C14: at most one SetDevice is ever sent and handled, at most one
\* forwarding task is spawned, device is Some exactly when that task was
\* spawned, and once Some it is never changed again.
C14_DeviceCreatedOnce ==
    /\ [](/\ SetDeviceSent <= 1
          /\ spawned <= 1
          /\ (device # None <=> spawned = 1)
          /\ (SetDeviceSent = 1 => devResult = "Ok"))
    /\ [][device # None => device' = device]_vars
    /\ [][SetDeviceSent' >= SetDeviceSent /\ spawned' >= spawned]_vars

\* The device was stored, the startup task is over and the loop has
\* already had updates handled: nothing sends a second SetDevice.
C14_Witness ==
    /\ device # None
    /\ initPc = "done"
    /\ spawned = 1
    /\ Len(handled) >= 2

\* The u64 held in limbs denotes the signed number s: only a non-negative s
\* has such a u64, and it is the base-65536 writing of s.
U64Equals(limbs, s) ==
    /\ s >= 0
    /\ limbs = <<0, 0, s \div Limb, s % Limb>>

\* C15 (as claimed): whenever UpdateProperties is handled and the
\* time-to-empty read is a present value of s seconds, negative s included,
\* time_remaining becomes a duration of exactly s seconds.
C15_DurationEqualsSecs ==
    [][(handled' # handled /\ device # None /\ IsOkSome(cache["time_to_empty"])) =>
          /\ time_remaining'.nanos = 0
          /\ U64Equals(time_remaining'.secs, cache["time_to_empty"].val[1])]_vars

\* The service reported -1 seconds and the field holds 2^64 - 1 seconds.
C15_Witness ==
    /\ cache["time_to_empty"] = Ok(Some(-1))
    /\ time_remaining = DurationFromSecs(<<Limb - 1, Limb - 1, Limb - 1, Limb - 1>>)

\* C16 (as claimed): battery_percent lies in [0,100] in every reachable
\* state, whatever the service reports.
C16_PercentInRange ==
    battery_percent >= 0 /\ battery_percent <= 100

\* C16 (amended): battery_percent changes only in the handling of
\* UpdateProperties with a device, and then to exactly the percentage the
\* service reported, unclamped; it is in [0,100] as long as the reported
\* values are.
C16_PercentAsReported ==
    [][battery_percent' # battery_percent =>
          /\ handled' # handled
          /\ device # None
          /\ IsOkSome(cache["percentage"])
          /\ battery_percent' = cache["percentage"].val[1]]_vars

\* The service reported 150 and the field holds 150.
C16_Witness ==
    /\ cache["percentage"] = Ok(Some(150))
    /\ battery_percent = 150

\* Every field whose cached property is a present value equals that value.
ConsistentExact ==
    /\ IsOkSome(cache["percentage"]) =>
          battery_percent = cache["percentage"].val[1]
    /\ IsOkSome(cache["icon_name"]) =>
          icon_name = cache["icon_name"].val[1]
    /\ IsOkSome(cache["time_to_empty"]) =>
          /\ time_remaining.nanos = 0
          /\ U64Equals(time_remaining.secs, cache["time_to_empty"].val[1])

\* The same, with time_remaining compared to the cast of the cached seconds.
ConsistentUpToCast ==
    /\ IsOkSome(cache["percentage"]) =>
          battery_percent = cache["percentage"].val[1]
    /\ IsOkSome(cache["icon_name"]) =>
          icon_name = cache["icon_name"].val[1]
    /\ IsOkSome(cache["time_to_empty"]) =>
          time_remaining = SecsToDuration(cache["time_to_empty"].val[1])

\* C17 (as claimed): once the notifications that arrived have all been
\* forwarded and handled, every snapshot field whose cached property is a
\* present value equals that cached value.
C17_ConsistentWhenQuiet ==
    Quiescent => ConsistentExact

\* Everything was forwarded and handled, the cached time to empty is -1 and
\* the field holds its cast.
C17_Witness ==
    /\ Quiescent
    /\ Len(handled) >= 2
    /\ cache["time_to_empty"] = Ok(Some(-1))
    /\ time_remaining = SecsToDuration(-1)

\* What holds of the code: the snapshot settles on the cached values with
\* the seconds cast to u64.
SettlesUpToCast ==
    /\ [](Quiescent => ConsistentUpToCast)
    /\ (device # None) ~> [](Quiescent /\ ConsistentUpToCast)

\* C18: every UpdateProperties is sent after SetDevice was handled: while
\* one is waiting or was handled device is Some, and none is handled with
\* device None.
C18_DeviceSetBeforeUpdates ==
    /\ [](Sent # <<>> => (device # None /\ spawned = 1))
    /\ [][handled' # handled => (device # None /\ device' # None)]_vars
    /\ [][Len(Sent') > Len(Sent) => device # None]_vars

\* An UpdateProperties was handled with the device present and read from it.
C18_Witness ==
    /\ handled # <<>>
    /\ device # None
    /\ battery_percent = 50

====
